---- MODULE Spec2Model ----
(***************************************************************************)
(* A model of the match-pruning subsystem of IM_OpenCV3.0:                 *)
(*   - GMS_Matcher (src/src/libGMS/gms_matcher.cpp): the grid-based motion *)
(*     statistics filter, with its hypothesis search in GetInlierMask;     *)
(*   - MatchPruner (src/src/match_pruner.cpp): the dispatcher that runs a  *)
(*     pruning strategy and assembles the aligned outputs.                 *)
(*                                                                         *)
(* Numbers.  Pixel coordinates and image sizes are integers and the image  *)
(* sizes are powers of two, so that every float of the code (kp/width,     *)
(* pt*grid, +0.5) is exact and is modelled by the rational <<num, den>>.   *)
(* alpha is a small non-negative integer, for which the comparison         *)
(* score < alpha*sqrt(thresh/numpair) is decided exactly by                *)
(* score^2*numpair < alpha^2*thresh.                                       *)
(*                                                                         *)
(* Vectors are 1-based sequences; grid cells, and the rows and columns of  *)
(* the matrices, keep the 0-based indices of the code.                     *)
(***************************************************************************)
EXTENDS Integers, Sequences, FiniteSets, TLC

(***************************************************************************)
(* Bounds of the model.                                                    *)
(***************************************************************************)
MaxMatches == 2
MaxCalls == 2
MaxPutative == 2
MaxK == 2

(***************************************************************************)
(* The scene: two 4x4 images and their keypoints (pixel coordinates).      *)
(* Keypoints on the far edge (x = width or y = height) normalise to 1.0.   *)
(***************************************************************************)
size1 == <<4, 4>>
size2 == <<4, 4>>
vkp1 == << <<0, 0>>, <<1, 1>>, <<4, 2>> >>
vkp2 == << <<0, 0>>, <<3, 3>>, <<4, 1>> >>

GridSizes == { <<2, 2>>, <<1, 2>> }
Alphas == {1, 2}
BOOL == {TRUE, FALSE}
\* what the caller's output vector may hold before a call
PriorVectors == { <<>>, <<TRUE>> }
\* descriptor distances of the candidates, in tenths: 1.0 and 3.0 are 10 and
\* 30, and 10/11 is the ratio of 2.0 and 2.2
Dists == {8, 10, 11, 30}
\* costs the LPM collaborator may report
Costs == {2, 3}
PRUNER_RATIO == 0
PRUNER_GMS == 1
PRUNER_LPM == 2

(***************************************************************************)
(* gms_matcher.cpp: tables                                                 *)
(***************************************************************************)
kRotationPatterns ==
  << <<1, 2, 3, 4, 5, 6, 7, 8, 9>>,
     <<4, 1, 2, 7, 5, 3, 8, 9, 6>>,
     <<7, 4, 1, 8, 5, 2, 9, 6, 3>>,
     <<8, 7, 4, 9, 5, 1, 6, 3, 2>>,
     <<9, 8, 7, 6, 5, 4, 3, 2, 1>>,
     <<6, 9, 8, 3, 5, 7, 2, 1, 4>>,
     <<3, 6, 9, 2, 5, 8, 1, 4, 7>>,
     <<2, 3, 6, 1, 5, 9, 4, 7, 8>> >>

NumScales == 5
NumRotations == 8
NumGridTypes == 4

\* int(w * kScaleRatios[Scale]) for the ratios 1, 1/2, 1/sqrt 2, sqrt 2, 2
ScaleDim(w, Scale) ==
  CASE Scale = 0 -> w
    [] Scale = 1 -> w \div 2
    [] Scale = 2 -> CHOOSE k \in 0..w : 2 * k * k <= w * w /\ 2 * (k + 1) * (k + 1) > w * w
    [] Scale = 3 -> CHOOSE k \in 0..(2 * w) : k * k <= 2 * w * w /\ (k + 1) * (k + 1) > 2 * w * w
    [] Scale = 4 -> 2 * w

(***************************************************************************)
(* gms_matcher.cpp: pure helpers                                           *)
(***************************************************************************)
\* a normalised point: each coordinate the rational <<pixel, image extent>>
NormalizePoints(kp, size) ==
  [i \in 1..Len(kp) |-> [x |-> <<kp[i][1], size[1]>>, y |-> <<kp[i][2], size[2]>>]]

\* (int)floor(c * g) and (int)floor(c * g + 0.5) for a coordinate c >= 0
FloorScaled(c, g, half) ==
  IF half THEN (2 * c[1] * g + c[2]) \div (2 * c[2]) ELSE (c[1] * g) \div c[2]

GetGridIndexLeft(pt, type, GridSize) ==
  LET x == FloorScaled(pt.x, GridSize[1], type \in {2, 4})
      y == FloorScaled(pt.y, GridSize[2], type \in {3, 4})
  IN  IF x >= GridSize[1] \/ y >= GridSize[2] THEN -1 ELSE x + y * GridSize[1]

GetGridIndexRight(pt, GridSize) ==
  LET x == FloorScaled(pt.x, GridSize[1], FALSE)
      y == FloorScaled(pt.y, GridSize[2], FALSE)
  IN  x + y * GridSize[1]

\* GetNB9 filling the slots column by column
GetNB9ColumnMajor(idx, GridSize) ==
  LET idx_x == idx % GridSize[1]
      idx_y == idx \div GridSize[1]
  IN  [s \in 1..9 |->
        LET xi == ((s - 1) \div 3) - 1
            yi == ((s - 1) % 3) - 1
            idx_xx == idx_x + xi
            idx_yy == idx_y + yi
        IN  IF idx_xx < 0 \/ idx_xx >= GridSize[1] \/ idx_yy < 0 \/ idx_yy >= GridSize[2]
            THEN -1
            ELSE idx_xx + idx_yy * GridSize[1]]

\* slot xi + 4 + yi*3 of the code is entry xi + 5 + yi*3 of the tuple
GetNB9(idx, GridSize) ==
  LET idx_x == idx % GridSize[1]
      idx_y == idx \div GridSize[1]
  IN  [s \in 1..9 |->
        LET xi == ((s - 1) % 3) - 1
            yi == ((s - 1) \div 3) - 1
            idx_xx == idx_x + xi
            idx_yy == idx_y + yi
        IN  IF idx_xx < 0 \/ idx_xx >= GridSize[1] \/ idx_yy < 0 \/ idx_yy >= GridSize[2]
            THEN -1
            ELSE idx_xx + idx_yy * GridSize[1]]

InitializeNeighbors(rows, GridSize) == [i \in 0..(rows - 1) |-> GetNB9(i, GridSize)]

Zeros(rows, cols) == [i \in 0..(rows - 1) |-> [j \in 0..(cols - 1) |-> 0]]

RECURSIVE SumTo(_, _)
SumTo(f, n) == IF n < 0 THEN 0 ELSE f[n] + SumTo(f, n - 1)

RECURSIVE CountTrue(_)
CountTrue(s) == IF s = <<>> THEN 0 ELSE (IF Head(s) THEN 1 ELSE 0) + CountTrue(Tail(s))

(***************************************************************************)
(* State                                                                   *)
(***************************************************************************)
VARIABLES
  \* GMS_Matcher members
  mvMatches, mGridSizeLeft, mAlpha, mGridNeighborLeft,
  mGridSizeRight, mGridNeighborRight,
  mMotionStatistics, mNumberPointsInPerCellLeft, mCellPairs, mvMatchPairs,
  mvbInlierMask,
  \* the frame of GetInlierMask / Run
  pc, WithScale, WithRotation, max_inlier, Scale, RotationType, GridType,
  num_inlier, vbInliers,
  \* how the build treats an out-of-range Mat::at ("any": not yet decided)
  build,
  \* history: the hypotheses evaluated by the call in progress, and the
  \* completed calls with what they handed back
  evaluated, ret,
  \* MatchPruner members
  putative_matches_, pruner_method_, pruned_matches_, scores_,
  query_mpts_, refer_mpts_, knn_distances_,
  \* the position of the constructor in PruneMatches, the positions of the
  \* putative collection the strategy accepted and the scores it gave them,
  \* and the reads outside a vector made so far
  prunerPc, accepted, given, strays

gmsVars == <<mvMatches, mGridSizeLeft, mAlpha, mGridNeighborLeft,
             mGridSizeRight, mGridNeighborRight,
             mMotionStatistics, mNumberPointsInPerCellLeft, mCellPairs,
             mvMatchPairs, mvbInlierMask,
             pc, WithScale, WithRotation, max_inlier, Scale, RotationType,
             GridType, num_inlier, vbInliers, build, evaluated, ret>>

prunerVars == <<putative_matches_, pruner_method_, pruned_matches_, scores_,
                query_mpts_, refer_mpts_, knn_distances_, prunerPc, accepted,
                given, strays>>

vars == <<gmsVars, prunerVars>>

query_kpts_ == vkp1
refer_kpts_ == vkp2

mvP1 == NormalizePoints(vkp1, size1)
mvP2 == NormalizePoints(vkp2, size2)
mNumberMatches == Len(mvMatches)
mGridNumberLeft == mGridSizeLeft[1] * mGridSizeLeft[2]
mGridNumberRight == mGridSizeRight[1] * mGridSizeRight[2]

(***************************************************************************)
(* gms_matcher.cpp: AssignMatchPairs                                       *)
(*                                                                         *)
(* mMotionStatistics.at<int>(lgidx, rgidx) is not range-checked in a       *)
(* release build: a column rgidx >= cols addresses the element at linear   *)
(* offset lgidx*cols + rgidx.  "oob" records whether such a write happened *)
(* and whether it stayed inside the matrix buffer ("in": it incremented    *)
(* another element) or left it ("out": nothing of the matrix changed).     *)
(***************************************************************************)
AssignOne(acc, i, type) ==
  LET lp == mvP1[mvMatches[i][1] + 1]
      rp == mvP2[mvMatches[i][2] + 1]
      lgidx == GetGridIndexLeft(lp, type, mGridSizeLeft)
      rgidx == IF type = 1 THEN GetGridIndexRight(rp, mGridSizeRight)
                           ELSE acc.pairs[i][2]
      L == mGridNumberLeft
      R == mGridNumberRight
      off == lgidx * R + rgidx
      pairs == [acc.pairs EXCEPT ![i] = <<lgidx, rgidx>>]
  IN  IF lgidx < 0 \/ rgidx < 0
      THEN [acc EXCEPT !.pairs = pairs]
      ELSE IF rgidx < R
      THEN [acc EXCEPT !.pairs = pairs,
                       !.stats[lgidx][rgidx] = @ + 1,
                       !.pop[lgidx] = @ + 1]
      ELSE IF R > 0 /\ off < L * R
      THEN [acc EXCEPT !.pairs = pairs,
                       !.stats[off \div R][off % R] = @ + 1,
                       !.pop[lgidx] = @ + 1,
                       !.oob = IF @ = "out" THEN "out" ELSE "in"]
      ELSE [acc EXCEPT !.pairs = pairs,
                       !.pop[lgidx] = @ + 1,
                       !.oob = "out"]

RECURSIVE AssignLoop(_, _, _)
AssignLoop(acc, i, type) ==
  IF i > mNumberMatches THEN acc
  ELSE AssignLoop(AssignOne(acc, i, type), i + 1, type)

\* from the state Run leaves at the top of an offset round
AssignMatchPairs(type, pairs) ==
  AssignLoop([pairs |-> pairs,
              stats |-> Zeros(mGridNumberLeft, mGridNumberRight),
              pop |-> [c \in 0..(mGridNumberLeft - 1) |-> 0],
              oob |-> "none"], 1, type)

(***************************************************************************)
(* gms_matcher.cpp: VerifyCellPairs                                        *)
(***************************************************************************)
\* the scan keeping the last column that holds the largest count
RECURSIVE MaxScanLast(_, _, _, _, _)
MaxScanLast(value, j, R, best, max_number) ==
  IF j >= R THEN best
  ELSE IF value[j] >= max_number /\ value[j] > 0
       THEN MaxScanLast(value, j + 1, R, j, value[j])
       ELSE MaxScanLast(value, j + 1, R, best, max_number)

\* the scan of lines 220-226: the first column holding the largest count
RECURSIVE MaxScan(_, _, _, _, _)
MaxScan(value, j, R, best, max_number) ==
  IF j >= R THEN best
  ELSE IF value[j] > max_number
       THEN MaxScan(value, j + 1, R, j, value[j])
       ELSE MaxScan(value, j + 1, R, best, max_number)

\* lines 237-245: score, thresh and numpair over the valid slot pairs
RECURSIVE Support(_, _, _, _, _, _)
Support(j, NB9_lt, NB9_rt, CurrentRP, stats, pop) ==
  IF j > 9 THEN [score |-> 0, thresh |-> 0, numpair |-> 0]
  ELSE LET rest == Support(j + 1, NB9_lt, NB9_rt, CurrentRP, stats, pop)
           ll == NB9_lt[j]
           rr == NB9_rt[CurrentRP[j]]
       IN  IF ll = -1 \/ rr = -1 THEN rest
           ELSE [score |-> rest.score + stats[ll][rr],
                 thresh |-> rest.thresh + pop[ll],
                 numpair |-> rest.numpair + 1]

\* the comparison of line 250 with <= for <
BelowOrAtThreshold(score, thresh, numpair, alpha) ==
  numpair # 0 /\ score * score * numpair <= alpha * alpha * thresh

\* score < mAlpha * sqrt(thresh / numpair); with numpair = 0 the quotient is
\* 0/0 = NaN and the comparison is false
BelowThreshold(score, thresh, numpair, alpha) ==
  numpair # 0 /\ score * score * numpair < alpha * alpha * thresh

VerifyCell(i, rot, stats, pop) ==
  IF SumTo(stats[i], mGridNumberRight - 1) = 0 THEN -1
  ELSE LET idx_grid_rt == MaxScan(stats[i], 0, mGridNumberRight, -1, 0)
           s == Support(1, mGridNeighborLeft[i], mGridNeighborRight[idx_grid_rt],
                        kRotationPatterns[rot], stats, pop)
       IN  IF BelowThreshold(s.score, s.thresh, s.numpair, mAlpha) THEN -2
           ELSE idx_grid_rt

VerifyCellPairs(rot, stats, pop) ==
  [i \in 0..(mGridNumberLeft - 1) |-> VerifyCell(i, rot, stats, pop)]

\* the marks of this offset replacing those of the offsets before it
MarkInliersOfLastOffset(mask, pairs, cells) ==
  [i \in 1..Len(mask) |-> pairs[i][1] # -1 /\ cells[pairs[i][1]] = pairs[i][2]]

\* Run, lines 313-319
MarkInliers(mask, pairs, cells) ==
  [i \in 1..Len(mask) |->
     IF pairs[i][1] = -1 THEN mask[i]
     ELSE IF cells[pairs[i][1]] = pairs[i][2] THEN TRUE ELSE mask[i]]

(***************************************************************************)
(* GMS_Matcher: construction                                               *)
(***************************************************************************)
\* the correspondences handed to the constructor: (queryIdx, trainIdx)
MatchLists ==
  UNION { [1..n -> (0..(Len(vkp1) - 1)) \X (0..(Len(vkp2) - 1))] : n \in 0..MaxMatches }

GmsInit ==
  /\ mvMatches \in MatchLists
  /\ mGridSizeLeft \in GridSizes
  /\ mAlpha \in Alphas
  /\ mGridNeighborLeft =
       InitializeNeighbors(mGridSizeLeft[1] * mGridSizeLeft[2], mGridSizeLeft)
  /\ mGridSizeRight = <<0, 0>>
  /\ mGridNeighborRight = <<>>
  /\ mMotionStatistics = <<>>
  /\ mNumberPointsInPerCellLeft = <<>>
  /\ mCellPairs = <<>>
  /\ mvMatchPairs = <<>>
  /\ mvbInlierMask = <<>>
  /\ pc = "idle"
  /\ WithScale = FALSE
  /\ WithRotation = FALSE
  /\ max_inlier = 0
  /\ Scale = 0
  /\ RotationType = 1
  /\ GridType = 1
  /\ num_inlier = 0
  /\ vbInliers = <<>>
  /\ build = "any"
  /\ evaluated = <<>>
  /\ ret = <<>>

(***************************************************************************)
(* GMS_Matcher::GetInlierMask, Run and SetScale, step by step              *)
(***************************************************************************)
\* the caller invokes GetInlierMask(vbInliers, WithScale, WithRotation)
Call ==
  /\ pc = "idle"
  /\ Len(ret) < MaxCalls
  /\ \E ws \in BOOL, wr \in BOOL, prior \in PriorVectors :
       /\ WithScale' = ws
       /\ WithRotation' = wr
       /\ vbInliers' = prior
  /\ max_inlier' = 0
  /\ Scale' = 0
  /\ RotationType' = 1
  /\ evaluated' = <<>>
  /\ pc' = "setscale"
  /\ UNCHANGED <<mvMatches, mGridSizeLeft, mAlpha, mGridNeighborLeft,
                 mGridSizeRight, mGridNeighborRight, mMotionStatistics,
                 mNumberPointsInPerCellLeft, mCellPairs, mvMatchPairs,
                 mvbInlierMask, GridType, num_inlier, build, ret, prunerVars>>

SetScale ==
  /\ pc = "setscale"
  /\ mGridSizeRight' = <<ScaleDim(mGridSizeLeft[1], Scale), ScaleDim(mGridSizeLeft[2], Scale)>>
  /\ mGridNeighborRight' =
       InitializeNeighbors(mGridSizeRight'[1] * mGridSizeRight'[2], mGridSizeRight')
  /\ pc' = "run"
  /\ UNCHANGED <<mvMatches, mGridSizeLeft, mAlpha, mGridNeighborLeft,
                 mMotionStatistics, mNumberPointsInPerCellLeft, mCellPairs,
                 mvMatchPairs, mvbInlierMask, WithScale, WithRotation,
                 max_inlier, Scale, RotationType, GridType, num_inlier,
                 vbInliers, build, evaluated, ret, prunerVars>>

\* Run, lines 298-302
RunBegin ==
  /\ pc = "run"
  /\ mvbInlierMask' = [i \in 1..mNumberMatches |-> FALSE]
  /\ mMotionStatistics' = Zeros(mGridNumberLeft, mGridNumberRight)
  /\ mvMatchPairs' = [i \in 1..mNumberMatches |-> <<0, 0>>]
  /\ GridType' = 1
  /\ pc' = "round"
  /\ UNCHANGED <<mvMatches, mGridSizeLeft, mAlpha, mGridNeighborLeft,
                 mGridSizeRight, mGridNeighborRight,
                 mNumberPointsInPerCellLeft, mCellPairs, WithScale,
                 WithRotation, max_inlier, Scale, RotationType, num_inlier,
                 vbInliers, build, evaluated, ret, prunerVars>>

\* Run, lines 304-320: one offset round, completed
Round ==
  /\ pc = "round"
  /\ LET a == AssignMatchPairs(GridType, mvMatchPairs)
         cells == VerifyCellPairs(RotationType, a.stats, a.pop)
     IN  /\ a.oob = "out" => mGridNumberRight > 0
         /\ build' = IF a.oob = "none" THEN build ELSE "unchecked"
         /\ mvMatchPairs' = a.pairs
         /\ mMotionStatistics' = a.stats
         /\ mNumberPointsInPerCellLeft' = a.pop
         /\ mCellPairs' = cells
         /\ mvbInlierMask' = MarkInliers(mvbInlierMask, a.pairs, cells)
  /\ IF GridType < NumGridTypes
     THEN GridType' = GridType + 1 /\ pc' = "round"
     ELSE GridType' = GridType /\ pc' = "count"
  /\ UNCHANGED <<mvMatches, mGridSizeLeft, mAlpha, mGridNeighborLeft,
                 mGridSizeRight, mGridNeighborRight, WithScale, WithRotation,
                 max_inlier, Scale, RotationType, num_inlier, vbInliers,
                 evaluated, ret, prunerVars>>

\* Run, line 203 with a column outside the matrix: the range check of a
\* checked build fails, or the stray write brings the process down
RoundFault ==
  /\ pc = "round"
  /\ LET a == AssignMatchPairs(GridType, mvMatchPairs)
     IN  \/ a.oob = "out"
         \/ a.oob = "in" /\ build = "any"
  /\ pc' = "fault"
  /\ UNCHANGED <<mvMatches, mGridSizeLeft, mAlpha, mGridNeighborLeft,
                 mGridSizeRight, mGridNeighborRight, mMotionStatistics,
                 mNumberPointsInPerCellLeft, mCellPairs, mvMatchPairs,
                 mvbInlierMask, WithScale, WithRotation, max_inlier, Scale,
                 RotationType, GridType, num_inlier, vbInliers, build,
                 evaluated, ret, prunerVars>>

\* Run, lines 321-325
RunReturn ==
  /\ pc = "count"
  /\ num_inlier' = CountTrue(mvbInlierMask)
  /\ evaluated' = Append(evaluated, [scale |-> Scale, rot |-> RotationType,
                                     n |-> num_inlier', mask |-> mvbInlierMask])
  /\ pc' = "keep"
  /\ UNCHANGED <<mvMatches, mGridSizeLeft, mAlpha, mGridNeighborLeft,
                 mGridSizeRight, mGridNeighborRight, mMotionStatistics,
                 mNumberPointsInPerCellLeft, mCellPairs, mvMatchPairs,
                 mvbInlierMask, WithScale, WithRotation, max_inlier, Scale,
                 RotationType, GridType, vbInliers, build, ret, prunerVars>>

BetterInverted(n, m) == n < m

\* GetInlierMask, lines 85, 99, 113
Better(n, m) == n > m

\* GetInlierMask: what each branch does with the count Run returned, and
\* the advance of its loops
Keep ==
  /\ pc = "keep"
  /\ LET take == (~WithScale /\ ~WithRotation) \/ Better(num_inlier, max_inlier)
     IN  /\ vbInliers' = IF take THEN mvbInlierMask ELSE vbInliers
         /\ max_inlier' = IF take THEN num_inlier ELSE max_inlier
  /\ IF WithRotation /\ RotationType < NumRotations
     THEN /\ RotationType' = RotationType + 1
          /\ pc' = "run"
          /\ UNCHANGED <<Scale, ret>>
     ELSE IF WithScale /\ Scale < NumScales - 1
     THEN /\ Scale' = Scale + 1
          /\ RotationType' = 1
          /\ pc' = "setscale"
          /\ UNCHANGED ret
     ELSE /\ pc' = "idle"
          /\ ret' = Append(ret, [WithScale |-> WithScale,
                                 WithRotation |-> WithRotation,
                                 count |-> max_inlier',
                                 mask |-> vbInliers',
                                 evaluated |-> evaluated])
          /\ UNCHANGED <<Scale, RotationType>>
  /\ UNCHANGED <<mvMatches, mGridSizeLeft, mAlpha, mGridNeighborLeft,
                 mGridSizeRight, mGridNeighborRight, mMotionStatistics,
                 mNumberPointsInPerCellLeft, mCellPairs, mvMatchPairs,
                 mvbInlierMask, WithScale, WithRotation, GridType,
                 num_inlier, build, evaluated, prunerVars>>


(***************************************************************************)
(* match_pruner.cpp                                                        *)
(*                                                                         *)
(* A cv::DMatch is [queryIdx, trainIdx, distance]; a score is the rational *)
(* <<numerator, denominator>>.  A read outside a vector is undefined: it   *)
(* either brings the constructor down (prunerPc = "fault") or yields a     *)
(* value nobody chose, and "strays" names the vector that was overrun.     *)
(***************************************************************************)
\* k distinct distances in ascending order
Ascending(k) == { d \in [1..k -> Dists] : \A j \in 1..(k - 1) : d[j] < d[j + 1] }

\* the k candidates a k-NN search returns for query keypoint q, the nearest
\* of them one of the reference keypoints 1, 2, ...
CandidateLists(k) ==
  { [j \in 1..k |-> [queryIdx |-> q,
                     trainIdx |-> (t + j - 1) % Len(vkp2),
                     distance |-> d[j]]] :
      q \in 0..(Len(vkp1) - 1), t \in 1..(Len(vkp2) - 1), d \in Ascending(k) }

\* one candidate list per query keypoint, the lists in any order
PutativeCollections ==
  UNION { { c \in [1..n -> CandidateLists(k)] :
              \A i \in 1..n, j \in 1..n :
                 c[i][1].queryIdx = c[j][1].queryIdx => i = j } :
          n \in 0..MaxPutative, k \in 1..MaxK }

LessOrEqual(a, b) == a[2] # 0 /\ b[2] # 0 /\ a[1] * b[2] <= b[1] * a[2]

\* a / b < c / d for non-negative numerators; false when a quotient is not
\* a number (x / 0)
Less(a, b) == a[2] # 0 /\ b[2] # 0 /\ a[1] * b[2] < b[1] * a[2]

\* line 55: tmp_matches[0].distance / tmp_matches[1].distance, where "stray"
\* is what the read of a missing second candidate yields
RatioScore(tmp_matches, stray) ==
  <<tmp_matches[1].distance,
    IF Len(tmp_matches) >= 2 THEN tmp_matches[2].distance ELSE stray>>

RECURSIVE RatioLoop(_, _, _, _)
RatioLoop(i, ratio, stray, acc) ==
  IF i > Len(putative_matches_) THEN acc
  ELSE LET tmp_matches == putative_matches_[i]
           score == RatioScore(tmp_matches, stray[i])
       IN  RatioLoop(i + 1, ratio, stray,
             IF Less(score, ratio)
             THEN [pruned |-> Append(acc.pruned, tmp_matches[1]),
                   scores |-> Append(acc.scores, score),
                   accepted |-> Append(acc.accepted, i)]
             ELSE acc)

NoneAccepted == [pruned |-> <<>>, scores |-> <<>>, accepted |-> <<>>]

PruneMatchesByRatioTest(ratio, stray) == RatioLoop(1, ratio, stray, NoneAccepted)

\* lines 65-68 and 88-91
InitialMatches == [i \in 1..Len(putative_matches_) |-> putative_matches_[i][1]]

\* lines 77-82 and 119-124: keep the labelled matches, each with its score
RECURSIVE LabelLoop(_, _, _, _)
LabelLoop(i, labels, score, acc) ==
  IF i > Len(labels) THEN acc
  ELSE LabelLoop(i + 1, labels, score,
         IF labels[i]
         THEN [pruned |-> Append(acc.pruned, InitialMatches[i]),
               scores |-> Append(acc.scores, score[i]),
               accepted |-> Append(acc.accepted, i)]
         ELSE acc)

\* what GetInlierMask(labels, true, true) leaves in an empty vector for n
\* correspondences: a mask with at least one inlier, or nothing (see Keep)
GmsLabels(n) == { <<>> } \cup { m \in [1..n -> BOOL] : CountTrue(m) > 0 }

\* the second pass of the LPM collaborator: labels and costs, one of each
\* per correspondence
LpmMatch(n) == [labels : [1..n -> BOOL], cost : [1..n -> Costs]]

OnFarEdge(kp, size) == kp[1] >= size[1] \/ kp[2] >= size[2]

PrunerInit ==
  /\ putative_matches_ \in PutativeCollections
  /\ pruner_method_ \in {PRUNER_RATIO, PRUNER_GMS, PRUNER_LPM}
  /\ pruned_matches_ = <<>>
  /\ scores_ = <<>>
  /\ query_mpts_ = <<>>
  /\ refer_mpts_ = <<>>
  /\ knn_distances_ = <<>>
  /\ prunerPc = "start"
  /\ accepted = <<>>
  /\ given = <<>>
  /\ strays = {}

Pruned(r) ==
  /\ pruned_matches_' = r.pruned
  /\ scores_' = r.scores
  /\ accepted' = r.accepted
  /\ prunerPc' = "pruned"
  /\ UNCHANGED <<putative_matches_, pruner_method_, query_mpts_, refer_mpts_,
                 knn_distances_, gmsVars>>

\* PruneMatches, lines 20-22
PruneRatio ==
  /\ prunerPc = "start"
  /\ pruner_method_ = PRUNER_RATIO
  /\ \E stray \in [1..Len(putative_matches_) -> Dists] :
       /\ \A i \in 1..Len(putative_matches_) :
            Len(putative_matches_[i]) >= 2 => stray[i] = putative_matches_[i][2].distance
       /\ LET r == PruneMatchesByRatioTest(<<8, 10>>, stray)
          IN  /\ Pruned(r)
              /\ given' = [i \in 1..Len(putative_matches_) |->
                             RatioScore(putative_matches_[i], stray[i])]
  /\ strays' = IF \E i \in 1..Len(putative_matches_) : Len(putative_matches_[i]) < 2
               THEN strays \cup {"tmp_matches[1]"} ELSE strays

\* line 55 on a list without a second candidate
PruneRatioFault ==
  /\ prunerPc = "start"
  /\ pruner_method_ = PRUNER_RATIO
  /\ \E i \in 1..Len(putative_matches_) : Len(putative_matches_[i]) < 2
  /\ strays' = strays \cup {"tmp_matches[1]"}
  /\ prunerPc' = "fault"
  /\ UNCHANGED <<putative_matches_, pruner_method_, pruned_matches_, scores_,
                 query_mpts_, refer_mpts_, knn_distances_, accepted, given,
                 gmsVars>>

\* PruneMatches, lines 23-25
PruneGMS ==
  /\ prunerPc = "start"
  /\ pruner_method_ = PRUNER_GMS
  /\ \E labels \in GmsLabels(Len(putative_matches_)) :
       LET one == [i \in 1..Len(putative_matches_) |-> <<1, 1>>]
       IN  /\ Pruned(LabelLoop(1, labels, one, NoneAccepted))
           /\ given' = one
  /\ UNCHANGED strays

\* the filter's vote for a reference keypoint on the far edge (RoundFault)
PruneGMSFault ==
  /\ prunerPc = "start"
  /\ pruner_method_ = PRUNER_GMS
  /\ \E i \in 1..Len(putative_matches_) :
       /\ ~OnFarEdge(query_kpts_[InitialMatches[i].queryIdx + 1], size1)
       /\ OnFarEdge(refer_kpts_[InitialMatches[i].trainIdx + 1], size2)
  /\ prunerPc' = "fault"
  /\ UNCHANGED <<putative_matches_, pruner_method_, pruned_matches_, scores_,
                 query_mpts_, refer_mpts_, knn_distances_, accepted, given,
                 strays, gmsVars>>

\* PruneMatches, lines 26-28
PruneLPM ==
  /\ prunerPc = "start"
  /\ pruner_method_ = PRUNER_LPM
  /\ \E m \in LpmMatch(Len(putative_matches_)) :
       LET cost == [i \in 1..Len(putative_matches_) |-> <<m.cost[i], 1>>]
       IN  /\ Pruned(LabelLoop(1, m.labels, cost, NoneAccepted))
           /\ given' = cost
  /\ UNCHANGED strays

MatchedPointOfFirst(kpts, idx) == kpts[1]

\* lines 39-40
MatchedPoint(kpts, idx) == kpts[idx + 1]

\* line 45: the row of candidate distances of a pruned match
KnnRow(match, knn, stray) ==
  IF match.queryIdx + 1 <= Len(putative_matches_)
  THEN [j \in 1..knn |-> putative_matches_[match.queryIdx + 1][j].distance]
  ELSE [j \in 1..knn |-> stray]

OverrunByQueryIdx ==
  \E i \in 1..Len(pruned_matches_) :
     pruned_matches_[i].queryIdx + 1 > Len(putative_matches_)

AssembleStrays ==
  (IF putative_matches_ = <<>> THEN {"putative_matches_[0]"} ELSE {})
  \cup (IF OverrunByQueryIdx THEN {"putative_matches_[queryIdx]"} ELSE {})

\* PruneMatches, lines 31-47
Assemble ==
  /\ prunerPc = "pruned"
  /\ \E strayKnn \in 0..MaxK, stray \in [1..Len(pruned_matches_) -> Dists] :
       LET num_pruned_matches == Len(pruned_matches_)
           knn == IF putative_matches_ = <<>> THEN strayKnn
                  ELSE Len(putative_matches_[1])
       IN  /\ putative_matches_ # <<>> => strayKnn = 0
           /\ \A i \in 1..num_pruned_matches :
                pruned_matches_[i].queryIdx + 1 <= Len(putative_matches_)
                  => stray[i] = 8
           /\ query_mpts_' = [i \in 1..num_pruned_matches |->
                               MatchedPoint(query_kpts_, pruned_matches_[i].queryIdx)]
           /\ refer_mpts_' = [i \in 1..num_pruned_matches |->
                               MatchedPoint(refer_kpts_, pruned_matches_[i].trainIdx)]
           /\ knn_distances_' = [i \in 1..num_pruned_matches |->
                                  KnnRow(pruned_matches_[i], knn, stray[i])]
  /\ strays' = strays \cup AssembleStrays
  /\ prunerPc' = "done"
  /\ UNCHANGED <<putative_matches_, pruner_method_, pruned_matches_, scores_,
                 accepted, given, gmsVars>>

\* lines 36 and 45 reading outside the putative collection
AssembleFault ==
  /\ prunerPc = "pruned"
  /\ AssembleStrays # {}
  /\ strays' = strays \cup AssembleStrays
  /\ prunerPc' = "fault"
  /\ UNCHANGED <<putative_matches_, pruner_method_, pruned_matches_, scores_,
                 query_mpts_, refer_mpts_, knn_distances_, accepted, given,
                 gmsVars>>

\* the specification of the filter: a GMS_Matcher and its caller
NoPruner ==
  /\ putative_matches_ = <<>>
  /\ pruner_method_ = PRUNER_GMS
  /\ pruned_matches_ = <<>>
  /\ scores_ = <<>>
  /\ query_mpts_ = <<>>
  /\ refer_mpts_ = <<>>
  /\ knn_distances_ = <<>>
  /\ prunerPc = "none"
  /\ accepted = <<>>
  /\ given = <<>>
  /\ strays = {}

Init == GmsInit /\ NoPruner

Next == Call \/ SetScale \/ RunBegin \/ Round \/ RoundFault \/ RunReturn \/ Keep

Spec == Init /\ [][Next]_vars

\* the specification of the dispatcher: the construction of a MatchPruner
NoFilter ==
  /\ mvMatches = <<>>
  /\ mGridSizeLeft = <<2, 2>>
  /\ mAlpha = 1
  /\ GmsInit

InitPruner == NoFilter /\ PrunerInit

NextPruner ==
  \/ PruneRatio \/ PruneRatioFault \/ PruneGMS \/ PruneGMSFault \/ PruneLPM
  \/ Assemble \/ AssembleFault

SpecPruner == InitPruner /\ [][NextPruner]_vars

(***************************************************************************)
(* Claims about GetInlierMask (specification Spec)                         *)
(***************************************************************************)
\* the hypotheses a call has to evaluate, in evaluation order
Requested(ws, wr) ==
  LET ns == IF ws THEN NumScales ELSE 1
      nr == IF wr THEN NumRotations ELSE 1
  IN  [i \in 1..(ns * nr) |-> <<(i - 1) \div nr, ((i - 1) % nr) + 1>>]

Searching(r) == r.WithScale \/ r.WithRotation

\* C1: every completed call evaluated exactly the requested hypotheses, once
\* each and scale-outer, and handed back the mask of the first hypothesis
\* whose inlier count is the largest of all evaluated ones.
C1_FirstMaximalMask ==
  \A c \in 1..Len(ret) :
    LET ev == ret[c].evaluated
    IN  /\ [i \in 1..Len(ev) |-> <<ev[i].scale, ev[i].rot>>]
             = Requested(ret[c].WithScale, ret[c].WithRotation)
        /\ \E i \in 1..Len(ev) :
             /\ \A j \in 1..Len(ev) : ev[j].n <= ev[i].n
             /\ \A j \in 1..(i - 1) : ev[j].n < ev[i].n
             /\ ret[c].mask = ev[i].mask

\* C2: after every call the mask has one boolean per correspondence and the
\* returned count is the number of true entries of the mask.
C2_MaskMatchesCount ==
  \A c \in 1..Len(ret) :
    /\ Len(ret[c].mask) = mNumberMatches
    /\ ret[c].count = CountTrue(ret[c].mask)

\* C3: on the same filter, a call with rotation and/or scale search never
\* returns a smaller inlier count than a call with both searches disabled.
C3_SearchNeverLoses ==
  \A a \in 1..Len(ret), b \in 1..Len(ret) :
    (~Searching(ret[a]) /\ Searching(ret[b])) => ret[b].count >= ret[a].count

\* a plain call and a searching call completed, and the search found more
C3_Witness ==
  \E a \in 1..Len(ret), b \in 1..Len(ret) :
    /\ ~Searching(ret[a])
    /\ Searching(ret[b])
    /\ ret[a].count > 0
    /\ ret[b].count > ret[a].count

\* C4: two calls with the same flags on the same filter hand back the same
\* mask and count, whatever was evaluated before and whatever the output
\* vector held.
C4_SameInputsSameMask ==
  \A a \in 1..Len(ret), b \in 1..Len(ret) :
    (ret[a].WithScale = ret[b].WithScale /\ ret[a].WithRotation = ret[b].WithRotation)
      => (ret[a].mask = ret[b].mask /\ ret[a].count = ret[b].count)

(***************************************************************************)
(* Claims about MatchPruner (specification SpecPruner)                     *)
(***************************************************************************)
Distances(list) == [j \in 1..Len(list) |-> list[j].distance]

RECURSIVE Increasing(_)
Increasing(q) ==
  Len(q) < 2 \/ (q[1] < q[2] /\ Increasing(Tail(q)))

\* C5: constructing a MatchPruner on zero putative correspondences fails
\* with EmptyInputError, under each strategy, and element 0 of the empty
\* collection is never read.
C5_EmptyInputRejected ==
  (putative_matches_ = <<>> /\ prunerPc \in {"done", "fault"})
    => (prunerPc = "EmptyInputError" /\ "putative_matches_[0]" \notin strays)

\* C6: the ratio test on candidate lists with fewer than two entries fails
\* with ConfigurationError, and no missing second candidate is read.
C6_RatioNeedsTwoCandidates ==
  ( /\ pruner_method_ = PRUNER_RATIO
    /\ \E i \in 1..Len(putative_matches_) : Len(putative_matches_[i]) < 2
    /\ prunerPc \in {"pruned", "done", "fault"} )
    => (prunerPc = "ConfigurationError" /\ "tmp_matches[1]" \notin strays)

\* C7: row i of the k-NN distance matrix holds the distances of the
\* candidate list the i-th accepted match was taken from, wherever that list
\* stands in the putative collection (stated for the passes in which every
\* read stayed inside its vector).
C7_KnnRowOfOwnList ==
  (prunerPc = "done" /\ strays = {}) =>
    \A i \in 1..Len(knn_distances_) :
      knn_distances_[i] = Distances(putative_matches_[accepted[i]])

\* C8: after a pass the pruned matches, the scores, the matched points of
\* both images and the rows of the distance matrix are equally many; entry i
\* of each belongs to the i-th accepted match (its keypoints' coordinates,
\* the score its strategy gave it); and the accepted matches keep the order
\* of the putative collection.
C8_OutputsAligned ==
  prunerPc = "done" =>
    /\ Len(scores_) = Len(pruned_matches_)
    /\ Len(query_mpts_) = Len(pruned_matches_)
    /\ Len(refer_mpts_) = Len(pruned_matches_)
    /\ Len(knn_distances_) = Len(pruned_matches_)
    /\ Len(accepted) = Len(pruned_matches_)
    /\ Increasing(accepted)
    /\ \A i \in 1..Len(pruned_matches_) :
         /\ pruned_matches_[i] = putative_matches_[accepted[i]][1]
         /\ query_mpts_[i] = vkp1[pruned_matches_[i].queryIdx + 1]
         /\ refer_mpts_[i] = vkp2[pruned_matches_[i].trainIdx + 1]
         /\ scores_[i] = given[accepted[i]]

\* a pass that rejected the first query and accepted the second
C8_Witness ==
  /\ prunerPc = "done"
  /\ strays = {}
  /\ Len(putative_matches_) = 2
  /\ accepted = <<2>>
  /\ putative_matches_[1][1].queryIdx # putative_matches_[2][1].queryIdx
  /\ putative_matches_[1][1].trainIdx # putative_matches_[2][1].trainIdx

\* C9: under the ratio test with at least two candidates per query, a query
\* is accepted exactly when dist1/dist2 < 0.8, and the score of an accepted
\* match is that ratio: (1.0, 3.0) is accepted with score 1/3, (2.0, 2.2)
\* has the ratio 10/11 and is rejected.
C9_RatioTest ==
  ( /\ pruner_method_ = PRUNER_RATIO
    /\ prunerPc \in {"pruned", "done"}
    /\ \A p \in 1..Len(putative_matches_) : Len(putative_matches_[p]) >= 2 )
    => /\ \A p \in 1..Len(putative_matches_) :
            LET d1 == putative_matches_[p][1].distance
                d2 == putative_matches_[p][2].distance
            IN  /\ (\E i \in 1..Len(accepted) : accepted[i] = p) <=> (10 * d1 < 8 * d2)
                /\ (d1 = 10 /\ d2 = 30) =>
                     \E i \in 1..Len(accepted) :
                        accepted[i] = p /\ 3 * scores_[i][1] = scores_[i][2]
                /\ 11 * d1 = 10 * d2 => \A i \in 1..Len(accepted) : accepted[i] # p
       /\ Len(scores_) = Len(accepted)
       /\ \A i \in 1..Len(accepted) :
            /\ scores_[i][2] # 0
            /\ scores_[i][1] * putative_matches_[accepted[i]][2].distance
                 = putative_matches_[accepted[i]][1].distance * scores_[i][2]

\* the two scenarios in one pass, and a ratio of exactly 0.8
C9_Witness ==
  /\ pruner_method_ = PRUNER_RATIO
  /\ prunerPc = "done"
  /\ Len(putative_matches_) = 2
  /\ Distances(putative_matches_[1]) = <<10, 11>>
  /\ Distances(putative_matches_[2]) = <<10, 30>>
  /\ accepted = <<2>>
  /\ scores_ = << <<10, 30>> >>

(***************************************************************************)
(* Claims about the grid index (specification Spec)                        *)
(***************************************************************************)
\* C10: a normalised point with x = 1.0 or y = 1.0 gets the grid index -1,
\* on the left grid under each offset and on the right grid at each scale.
C10_FarEdgeExcluded ==
  (pc \in {"count", "keep"} \/ (pc = "round" /\ GridType > 1)) =>
    \A i \in 1..Len(mvMatchPairs) :
      /\ OnFarEdge(vkp1[mvMatches[i][1] + 1], size1) => mvMatchPairs[i][1] = -1
      /\ OnFarEdge(vkp2[mvMatches[i][2] + 1], size2) => mvMatchPairs[i][2] = -1

(***************************************************************************)
(* Claims about the configuration and the grids (specification Spec)       *)
(***************************************************************************)
ZeroCells(GridSize) == GridSize[1] <= 0 \/ GridSize[2] <= 0

\* C11: a filter whose left grid or right grid (after scaling) has a zero or
\* negative dimension, or whose alpha is not positive, fails with
\* ConfigurationError before any voting: Run is never entered with such a
\* grid.
C11_ConfigurationRejected ==
  (ZeroCells(mGridSizeLeft) \/ ZeroCells(mGridSizeRight) \/ mAlpha <= 0)
    => pc \in {"idle", "setscale", "ConfigurationError"}

\* what C12 says of the neighbor table of a grid: the number of valid slots
\* of a corner, edge and interior cell, the cell itself in the middle slot,
\* and in each valid slot the cell at that position of the 3x3 neighborhood
\* taken row by row
NeighborTableAsClaimed(table, GridSize) ==
  \A idx \in 0..(GridSize[1] * GridSize[2] - 1) :
    LET x == idx % GridSize[1]
        y == idx \div GridSize[1]
        onColumnBorder == x = 0 \/ x = GridSize[1] - 1
        onRowBorder == y = 0 \/ y = GridSize[2] - 1
        valid == Cardinality({ s \in 1..9 : table[idx][s] # -1 })
    IN  /\ valid = IF onColumnBorder /\ onRowBorder THEN 4
                   ELSE IF onColumnBorder \/ onRowBorder THEN 6
                   ELSE 9
        /\ table[idx][5] = idx
        /\ \A s \in 1..9 :
             table[idx][s] # -1 =>
               table[idx][s] = (x + ((s - 1) % 3) - 1)
                                 + (y + ((s - 1) \div 3) - 1) * GridSize[1]

\* C12 as stated: for every W x H grid the neighbor table of the left grid
\* and of the right grid gives a corner cell 4 valid slots, an edge cell 6
\* and an interior cell 9, slots in row-major order around the cell.
C12_NeighborCounts ==
  /\ NeighborTableAsClaimed(mGridNeighborLeft, mGridSizeLeft)
  /\ NeighborTableAsClaimed(mGridNeighborRight, mGridSizeRight)

\* C12 amended: the same, for grids of at least two columns and two rows.
C12_NeighborCountsOfWideGrids ==
  /\ (mGridSizeLeft[1] >= 2 /\ mGridSizeLeft[2] >= 2)
       => NeighborTableAsClaimed(mGridNeighborLeft, mGridSizeLeft)
  /\ (mGridSizeRight[1] >= 2 /\ mGridSizeRight[2] >= 2)
       => NeighborTableAsClaimed(mGridNeighborRight, mGridSizeRight)

\* the table of a 4x4 right grid, which has corner, edge and interior cells
C12_Witness ==
  /\ pc = "run"
  /\ mGridSizeRight = <<4, 4>>
  /\ mGridNeighborRight[5] = <<0, 1, 2, 4, 5, 6, 8, 9, 10>>
  /\ mGridNeighborRight[3] = <<-1, -1, -1, 2, 3, -1, 6, 7, -1>>
  /\ mGridNeighborRight[4] = <<-1, 0, 1, -1, 4, 5, -1, 8, 9>>

(***************************************************************************)
(* Claims about one offset round of Run (specification Spec)               *)
(***************************************************************************)
\* an offset round of the hypothesis in progress has been completed, and
\* the members hold what it left
RoundDone == pc \in {"count", "keep"} \/ (pc = "round" /\ GridType > 1)

\* C13: every keypoint of the scene has normalised coordinates in [0,1];
\* under every offset, rotation and scale each access to the vote matrix,
\* the population counters, the pairing array and the neighbor tables uses
\* a left cell in [0, leftCells) and a right cell in [0, rightCells), and a
\* point outside the grid carries the index -1 and is skipped.
C13_IndicesInRange ==
  /\ pc # "fault"
  /\ build # "unchecked"
  /\ RoundDone =>
       /\ \A i \in 1..Len(mvMatchPairs) :
            /\ mvMatchPairs[i][1] \in -1..(mGridNumberLeft - 1)
            /\ mvMatchPairs[i][2] \in -1..(mGridNumberRight - 1)
       /\ \A c \in 0..(mGridNumberLeft - 1) :
            mCellPairs[c] \in -2..(mGridNumberRight - 1)

\* correspondence i as the members describe it after an offset round: both
\* its cells assignable, the pairing of its left cell kept by the
\* verification, and that pairing its right cell
MarkedBy(pairs, cells, i) ==
  /\ pairs[i][1] # -1
  /\ pairs[i][2] # -1
  /\ cells[pairs[i][1]] >= 0
  /\ cells[pairs[i][1]] = pairs[i][2]

\* C14: within one Run the mask starts all false, and each offset round
\* leaves correspondence i inlier exactly if it was inlier before the round
\* or the round marks it (both cells assignable, the left cell's pairing
\* kept and equal to the right cell); hence the mask Run returns is the OR
\* over the 4 offsets, an unassignable correspondence is not marked by that
\* offset, and no mark is cleared by a later offset.
C14_InlierIffSomeOffset ==
  [][ /\ (pc = "run" /\ pc' = "round") =>
           \A i \in 1..Len(mvbInlierMask') : ~mvbInlierMask'[i]
      /\ (pc = "round" /\ pc' \in {"round", "count"}) =>
           /\ Len(mvbInlierMask') = mNumberMatches
           /\ \A i \in 1..Len(mvbInlierMask') :
                mvbInlierMask'[i] <=>
                  (mvbInlierMask[i] \/ MarkedBy(mvMatchPairs', mCellPairs', i))
      /\ (pc = "count" /\ pc' = "keep") =>
           /\ mvbInlierMask' = mvbInlierMask
           /\ evaluated'[Len(evaluated')].mask = mvbInlierMask
    ]_vars

\* all four offsets done: one correspondence is inlier although the last
\* offset does not mark it, another is inlier under no offset
C14_Witness ==
  /\ pc = "count"
  /\ \E i \in 1..Len(mvbInlierMask), j \in 1..Len(mvbInlierMask) :
       /\ mvbInlierMask[i]
       /\ ~MarkedBy(mvMatchPairs, mCellPairs, i)
       /\ ~mvbInlierMask[j]

RECURSIVE SumOver(_, _)
SumOver(S, f) ==
  IF S = {} THEN 0
  ELSE LET e == CHOOSE e \in S : TRUE IN f[e] + SumOver(S \ {e}, f)

\* the votes left cell c holds in the vote matrix
RowVotes(c) == SumOver(0..(mGridNumberRight - 1), mMotionStatistics[c])

\* the tentative pairing of left cell c: the lowest right cell among those
\* with the most votes of its row
Tentative(c) ==
  CHOOSE r \in 0..(mGridNumberRight - 1) :
    /\ \A q \in 0..(mGridNumberRight - 1) :
         mMotionStatistics[c][q] <= mMotionStatistics[c][r]
    /\ \A q \in 0..(r - 1) : mMotionStatistics[c][q] < mMotionStatistics[c][r]

\* the slots j whose left neighbor and whose right neighbor under the
\* rotation pattern are both cells of their grids
ValidSlotPairs(c) ==
  { j \in 1..9 :
      /\ mGridNeighborLeft[c][j] # -1
      /\ mGridNeighborRight[Tentative(c)][kRotationPatterns[RotationType][j]] # -1 }

\* C15: after the verification of an offset round, under every rotation
\* and scale, a left cell that had a tentative pairing has it discarded
\* (-2) exactly if the number n of its valid slot pairs is 0 or
\* supportScore < alpha*sqrt(populationSum/n), and keeps it otherwise, both
\* sums taken over exactly the valid slot pairs; and n is never 0 where the
\* quotient is formed.
C15_ThresholdRule ==
  RoundDone =>
    \A c \in 0..(mGridNumberLeft - 1) :
      RowVotes(c) # 0 =>
        LET S == ValidSlotPairs(c)
            n == Cardinality(S)
            right == mGridNeighborRight[Tentative(c)]
            supportScore ==
              SumOver(S, [j \in S |->
                mMotionStatistics[mGridNeighborLeft[c][j]]
                                 [right[kRotationPatterns[RotationType][j]]]])
            populationSum ==
              SumOver(S, [j \in S |->
                mNumberPointsInPerCellLeft[mGridNeighborLeft[c][j]]])
            discard == n = 0 \/ supportScore * supportScore * n
                                  < mAlpha * mAlpha * populationSum
        IN  /\ n # 0
            /\ mCellPairs[c] = IF discard THEN -2 ELSE Tentative(c)

\* under a rotated pattern and a scaled right grid, a cell with more than
\* one valid slot pair lost its pairing
C15_Witness ==
  /\ RoundDone
  /\ RotationType > 1
  /\ Scale > 0
  /\ \E c \in 0..(mGridNumberLeft - 1) :
       /\ RowVotes(c) # 0
       /\ mCellPairs[c] = -2
       /\ Cardinality(ValidSlotPairs(c)) > 1

\* C16: after the voting and the verification of an offset round the
\* pairing of every left cell is -1 exactly if its row of the vote matrix
\* holds no vote of this round, and otherwise is either -2 or a right cell
\* in [0, rightCells): the lowest-index one with the most votes of the row.
C16_PairingStates ==
  RoundDone =>
    \A c \in 0..(mGridNumberLeft - 1) :
      /\ mCellPairs[c] = -1 <=> RowVotes(c) = 0
      /\ RowVotes(c) # 0 =>
           \/ mCellPairs[c] = -2
           \/ /\ mCellPairs[c] \in 0..(mGridNumberRight - 1)
              /\ \A q \in 0..(mGridNumberRight - 1) :
                   mMotionStatistics[c][q] <= mMotionStatistics[c][mCellPairs[c]]
              /\ \A q \in 0..(mCellPairs[c] - 1) :
                   mMotionStatistics[c][q] < mMotionStatistics[c][mCellPairs[c]]

\* a cell whose two votes went to different right cells kept the lower of
\* them, beside a cell without votes
C16_Witness ==
  /\ RoundDone
  /\ \E c \in 0..(mGridNumberLeft - 1), d \in 0..(mGridNumberLeft - 1) :
       /\ mCellPairs[c] >= 0
       /\ \E q \in (mCellPairs[c] + 1)..(mGridNumberRight - 1) :
            mMotionStatistics[c][q] = mMotionStatistics[c][mCellPairs[c]]
       /\ mCellPairs[d] = -1

\* the correspondences AssignMatchPairs assigned to left cell c in the
\* round: those with both indices assignable and c as their left cell
AssignedTo(c) ==
  { i \in 1..Len(mvMatchPairs) :
      mvMatchPairs[i][1] = c /\ mvMatchPairs[i][2] >= 0 }

\* C17: at the end of an offset round, for every left cell the sum of its
\* row of the vote matrix equals its population counter and the number of
\* correspondences assigned to the cell in this round; no count is
\* negative and the counts total at most the number of correspondences, so
\* nothing of an earlier round or hypothesis remains.
C17_VotesMatchPopulation ==
  RoundDone =>
    /\ \A c \in 0..(mGridNumberLeft - 1) :
         /\ RowVotes(c) = mNumberPointsInPerCellLeft[c]
         /\ mNumberPointsInPerCellLeft[c] = Cardinality(AssignedTo(c))
         /\ \A r \in 0..(mGridNumberRight - 1) : mMotionStatistics[c][r] >= 0
    /\ SumOver(0..(mGridNumberLeft - 1), mNumberPointsInPerCellLeft)
         <= mNumberMatches

====
